---- MODULE Spec2Model ----
(***************************************************************************)
(* The lane filter node of lane_filter_node_Qlearning.py: a histogram      *)
(* filter over (d, phi) fed by line segments and velocity messages.        *)
(*                                                                         *)
(* Numbers.  Lengths are integers in centimetres, angles integers in       *)
(* centiradians, times integers in clock ticks.  A grid of reals (belief,  *)
(* likelihood) is a record [num, den]: cell c holds the rational           *)
(* num[c]/den.  sin, arcsin, exp and sqrt are fixed-point evaluations.     *)
(*                                                                         *)
(* Lines 121-244 of the source (the Q-learning fragment inside             *)
(* processSegments) are not Python and are not modelled; the handler is    *)
(* modelled as lines 110-120 followed by lines 248-318.                    *)
(***************************************************************************)
EXTENDS Integers, Sequences, FiniteSets, TLC

\* ------------------------------------------------------------------ bounds
MaxFrames == 2
MaxReloads == 1

\* ------------------------------------------------------- fixed-point maths
Fix == 10000
PdfFix == 100
Precision == 1000
HalfPi == 157
PiMilli == 3142

Abs(x) == IF x < 0 THEN -x ELSE x
Min(a, b) == IF a <= b THEN a ELSE b
Max(a, b) == IF a >= b THEN a ELSE b

RECURSIVE GCD(_, _)
GCD(a, b) == IF b = 0 THEN Abs(a) ELSE GCD(b, a % b)

\* floor(a/b) for b # 0, as math.floor of a float quotient
FloorDiv(a, b) == IF b > 0 THEN a \div b ELSE (-a) \div (-b)

\* floor of the square root, by bisection: lo * lo <= n < hi * hi
RECURSIVE SqrtIn(_, _, _)
SqrtIn(n, lo, hi) ==
    IF hi - lo <= 1 THEN lo
    ELSE LET mid == (lo + hi) \div 2
         IN  IF mid * mid <= n THEN SqrtIn(n, mid, hi) ELSE SqrtIn(n, lo, mid)
ISqrt(n) == SqrtIn(n, 0, 46340)

\* sin(a/100) * Fix, by the nested Taylor polynomial up to the x^7 term
SinPos(a) ==
    LET a2 == a * a
        t3 == Fix - a2 \div 42
        t2 == Fix - (a2 * t3) \div (20 * Fix)
        t1 == Fix - (a2 * t2) \div (6 * Fix)
    IN  (a * t1) \div 100
SinFix(a) == IF a < 0 THEN -SinPos(-a) ELSE SinPos(a)
SinTab == [a \in (-HalfPi - 1)..(HalfPi + 1) |-> SinFix(a)]

\* arcsin(s/Fix) in centiradians, truncated towards zero
ArcSinPos(s) ==
    CHOOSE a \in 0..HalfPi : SinTab[a] <= s /\ (a = HalfPi \/ SinTab[a + 1] > s)
ArcSinFix(s) == IF s < 0 THEN -ArcSinPos(-s) ELSE ArcSinPos(s)

\* exp(-x/100) * Fix for x >= 0
RECURSIVE ExpNegInt(_)
ExpNegInt(k) == IF k = 0 THEN Fix ELSE (ExpNegInt(k - 1) * 3679) \div Fix
ExpNegFix(x) ==
    LET y  == 100 * (x % 100)
        u5 == Fix - y \div 5
        u4 == Fix - (y * u5) \div (4 * Fix)
        u3 == Fix - (y * u4) \div (3 * Fix)
        u2 == Fix - (y * u3) \div (2 * Fix)
        u1 == Fix - (y * u2) \div Fix
    IN  IF x \div 100 > 20 THEN 0 ELSE (u1 * ExpNegInt(x \div 100)) \div Fix

\* ------------------------------------------------------------- parameters
\* The values rospy.get_param returns to updateParams: one record per
\* content of the parameter server.
BaseParams ==
    [ mean_0 |-> <<0, 0>>, cov_0 |-> <<1000, 10000>>,
      delta_d |-> 20, delta_phi |-> 105,
      d_max |-> 30, d_min |-> -30, phi_min |-> -157, phi_max |-> 157,
      cov_v |-> 50, cov_omega |-> 1,
      linewidth_white |-> 4, linewidth_yellow |-> 2, lanewidth |-> 40,
      min_max |-> 30,
      use_distance_weighting |-> FALSE,
      zero_val |-> 1, l_peak |-> 20, peak_val |-> 10, l_max |-> 40,
      control_points_int |-> FALSE,
      use_max_segment_dist |-> FALSE, max_segment_dist |-> 100,
      use_min_segs |-> FALSE, min_segs |-> 1,
      use_propagation |-> TRUE,
      cov_mask |-> <<5, 5>> ]

\* ------------------------------------------------------------------ grids
\* the function f with every value computed once (an array, not a rule)
Array(f) == f @@ <<>>

Cells(shape) == (0..(shape[1] - 1)) \X (0..(shape[2] - 1))
Zeros(shape) == Array([c \in Cells(shape) |-> 0])

RECURSIVE SumOver(_, _)
SumOver(f, S) ==
    IF S = {} THEN 0 ELSE LET c == CHOOSE x \in S : TRUE IN f[c] + SumOver(f, S \ {c})
\* np.sum of the numerators of a grid
SumNum(g) == SumOver(g.num, DOMAIN g.num)

RECURSIVE GcdOver(_, _)
GcdOver(f, S) ==
    IF S = {} THEN 0 ELSE LET c == CHOOSE x \in S : TRUE IN GCD(f[c], GcdOver(f, S \ {c}))

\* the same rational grid in lowest terms with a positive denominator
Reduce(g) ==
    LET k == GCD(GcdOver(g.num, DOMAIN g.num), g.den)
        s == IF g.den < 0 THEN -1 ELSE 1
    IN  IF k = 0 THEN g
        ELSE [num |-> Array([c \in DOMAIN g.num |-> s * (g.num[c] \div k)]), den |-> s * (g.den \div k)]

\* A float array holds finitely many digits. A grid whose denominator exceeds
\* twice Precision is rounded: every numerator is divided by the same k,
\* rounding up (a positive cell stays positive), and the total is the new
\* denominator.
CeilDiv(a, k) == (a + k - 1) \div k
Rounded(g) ==
    LET k == CeilDiv(g.den, Precision)
        n2 == Array([c \in DOMAIN g.num |-> CeilDiv(g.num[c], k)])
    IN  IF g.den <= 2 * Precision THEN g
        ELSE Reduce([num |-> n2, den |-> SumOver(n2, DOMAIN n2)])

\* g / np.sum(g): every cell divided by the total; the caller excludes a zero total
Normalize(g) == Rounded(Reduce([num |-> g.num, den |-> SumNum(g)]))

\* np.sum(g) == 1
SumsToOne(g) == g.den # 0 /\ SumNum(g) = g.den
NonNegative(g) == g.den > 0 /\ \A c \in DOMAIN g.num : g.num[c] >= 0

\* number of points of np.mgrid[lo:hi:step]: ceil((hi - lo)/step)
MGridLen(lo, hi, step) == (hi - lo + step - 1) \div step
GridShape(p) ==
    <<MGridLen(p.d_min, p.d_max, p.delta_d), MGridLen(p.phi_min, p.phi_max, p.delta_phi)>>
GridD(p) == Array([c \in Cells(GridShape(p)) |-> p.d_min + c[1] * p.delta_d])
GridPhi(p) == Array([c \in Cells(GridShape(p)) |-> p.phi_min + c[2] * p.delta_phi])

\* array[i] of a Python sequence of length n: a negative index counts from the
\* end, an index outside -n..n-1 raises IndexError (-1 here)
PyIndex(i, n) == IF 0 <= i /\ i < n THEN i ELSE IF -n <= i /\ i < 0 THEN i + n ELSE -1

\* -------------------------------------------------------- initializeBelief
\* multivariate_normal(mean_0, cov_0).pdf at the grid points, not normalized
\* The density is exp(-q/2) / (2 pi sqrt(det cov_0)); cov_0 is held in cm^2 and
\* centirad^2, so sqrt(det) is in units of 1/Fix. Both terms of the quotient are
\* divided by Fix/PdfFix to keep the integers small.
PdfDen(p) == (2 * PiMilli * ISqrt(p.cov_0[1] * p.cov_0[2])) \div (1000 * (Fix \div PdfFix))
PdfNum(dv, pv, p) ==
    LET q == (100 * (dv - p.mean_0[1]) * (dv - p.mean_0[1])) \div p.cov_0[1]
             + (100 * (pv - p.mean_0[2]) * (pv - p.mean_0[2])) \div p.cov_0[2]
    IN  ExpNegFix(q \div 2) \div (Fix \div PdfFix)
initializeBelief(dg, pg, p) ==
    [num |-> Array([c \in DOMAIN dg |-> PdfNum(dg[c], pg[c], p)]), den |-> PdfDen(p)]

\* ------------------------------------------------------------ generateVote
\* A segment is [points |-> <<<<x1, y1>>, <<x2, y2>>>>, color]. The vote is
\* d_i = dn/dd, l_i = ln/dd (dd = 2 |p2 - p1|) and phi_i in centiradians; nan
\* marks the 0/0 of a segment whose endpoints coincide.
WHITE == 0
YELLOW == 1

\* lines 386-408, given the norm n of p2 - p1 and phi0 = arcsin(t_hat[1])
VoteOf(segment, p, n, phi0) ==
    LET p1 == segment.points[1]
        p2 == segment.points[2]
        dx == p2[1] - p1[1]
        dy == p2[2] - p1[2]
        \* n * inner(n_hat, p) and n * |inner(t_hat, p)|
        d1 == -dy * p1[1] + dx * p1[2]
        d2 == -dy * p2[1] + dx * p2[2]
        l1 == Abs(dx * p1[1] + dy * p1[2])
        l2 == Abs(dx * p2[1] + dy * p2[2])
        left == p2[1] > p1[1]
    IN  [nan |-> n = 0,
         dn |-> IF segment.color = YELLOW
                THEN p.lanewidth * n
                     - (IF left THEN d1 + d2 - p.linewidth_yellow * 2 * n ELSE -(d1 + d2))
                ELSE d1 + d2,
         ln |-> l1 + l2,
         dd |-> 2 * n,
         phi_i |-> IF segment.color = YELLOW /\ left THEN -phi0 ELSE phi0]

\* np.arcsin(dy / n)
ArcSinRatio(dy, n) ==
    IF n = 0 THEN 0
    ELSE IF dy < 0 THEN -ArcSinPos(((-dy) * Fix) \div n)
    ELSE ArcSinPos((dy * Fix) \div n)

SegmentNorm(segment) ==
    ISqrt((segment.points[2][1] - segment.points[1][1]) * (segment.points[2][1] - segment.points[1][1])
          + (segment.points[2][2] - segment.points[1][2]) * (segment.points[2][2] - segment.points[1][2]))

VoteWithNorm(segment, p, n) ==
    VoteOf(segment, p, n, ArcSinRatio(segment.points[2][2] - segment.points[1][2], n))

generateVote(segment, p) == VoteWithNorm(segment, p, SegmentNorm(segment))

\* ---------------------------------------------------------------- rationals
Rat(n, m) ==
    LET k == GCD(n, m)
        sg == IF m < 0 THEN -1 ELSE 1
    IN  IF k = 0 THEN [num |-> n, den |-> m] ELSE [num |-> sg * (n \div k), den |-> sg * (m \div k)]
RAdd(a, b) ==
    LET m == (a.den \div GCD(a.den, b.den)) * b.den
    IN  Rat(a.num * (m \div a.den) + b.num * (m \div b.den), m)
RMul(a, b) == Rat(a.num * b.num, a.den * b.den)

\* grid[c] = grid[c] + r, over the common denominator
AddToCell(g, c, r) ==
    LET m == (g.den * r.den) \div GCD(g.den, r.den)
    IN  [num |-> Array([x \in DOMAIN g.num |->
                    g.num[x] * (m \div g.den) + (IF x = c THEN r.num * (m \div r.den) ELSE 0)]),
         den |-> m]

\* --------------------------------------- distance weighting (lines 43-45)
\* dwa, dwb, dwc from the control points, as __init__ computes them. The
\* source is Python 2: when the parameter server holds the four control
\* points as integers (as the defaults 1, 1, 10, 2 are), each `/` of lines
\* 43-45 is the floor division of integers. control_points_int says so; the
\* lengths are then whole metres, and the coefficients per m^3, m^2 and m
\* are brought to centimetres.
DwCoefficientsInt(z, lp, pk, lm) ==
    [dwa |-> Rat(FloorDiv(-(z * lp * lp + z * lm * lm - lm * lm * pk - 2 * z * lp * lm
                              + 2 * lp * lm * pk),
                          lp * lp * lm * (lp - lm) * (lp - lm)), 1000000),
     dwb |-> Rat(FloorDiv(2 * z * lp * lp * lp + z * lm * lm * lm - lm * lm * lm * pk
                              - 3 * z * lp * lp * lm + 3 * lp * lp * lm * pk,
                          lp * lp * lm * (lp - lm) * (lp - lm)), 10000),
     dwc |-> Rat(FloorDiv(-(z * lp * lp * lp + 2 * z * lm * lm * lm - 2 * lm * lm * lm * pk
                              - 3 * z * lp * lm * lm + 3 * lp * lm * lm * pk),
                          lp * lm * (lp - lm) * (lp - lm)), 100)]
DwCoefficientsFloat(p) ==
    LET z == p.zero_val
        lp == p.l_peak
        lm == p.l_max
        pk == p.peak_val
        sq == (lp - lm) * (lp - lm)
    IN  [dwa |-> Rat(-(z * lp * lp + z * lm * lm - lm * lm * pk - 2 * z * lp * lm + 2 * lp * lm * pk),
                     lp * lp * lm * sq),
         dwb |-> Rat(2 * z * lp * lp * lp + z * lm * lm * lm - lm * lm * lm * pk
                        - 3 * z * lp * lp * lm + 3 * lp * lp * lm * pk,
                     lp * lp * lm * sq),
         dwc |-> Rat(-(z * lp * lp * lp + 2 * z * lm * lm * lm - 2 * lm * lm * lm * pk
                        - 3 * z * lp * lm * lm + 3 * lp * lm * lm * pk),
                     lp * lm * sq)]
DwCoefficients(p) ==
    IF p.control_points_int
    THEN DwCoefficientsInt(p.zero_val, p.l_peak \div 100, p.peak_val, p.l_max \div 100)
    ELSE DwCoefficientsFloat(p)

\* dwa*l^3 + dwb*l^2 + dwc*l + zero_val (line 269)
DistWeight(dw, zero_val, l) ==
    RAdd(RAdd(RMul(dw.dwa, RMul(l, RMul(l, l))), RMul(dw.dwb, RMul(l, l))),
         RAdd(RMul(dw.dwc, l), Rat(zero_val, 1)))

\* ------------------------------------- measurement likelihood (lines 248-274)
\* One pass of the loop body on the accumulator acc = [raised, grid]:
\* lines 260-274 for the vote of the segment and its weight.
Accumulate(acc, vote, weight, p, shape) ==
    LET dd == vote.dd
        outside == \/ vote.dn > p.d_max * dd
                   \/ vote.dn < p.d_min * dd
                   \/ vote.phi_i < p.phi_min
                   \/ vote.phi_i > p.phi_max
        toofar == p.use_max_segment_dist /\ vote.ln > p.max_segment_dist * dd
        \* floor of a nan or of a division by zero is no index
        noindex == vote.nan \/ p.delta_d = 0 \/ p.delta_phi = 0
        i == IF noindex THEN -1
             ELSE PyIndex(FloorDiv(vote.dn - p.d_min * dd, p.delta_d * dd), shape[1])
        j == IF noindex THEN -1
             ELSE PyIndex(FloorDiv(vote.phi_i - p.phi_min, p.delta_phi), shape[2])
    IN  IF ~vote.nan /\ (outside \/ toofar) THEN acc
        ELSE IF p.use_distance_weighting /\ ~vote.nan /\ weight.num < 0 THEN acc
        ELSE IF i = -1 \/ j = -1 THEN [acc EXCEPT !.raised = TRUE]
        ELSE [acc EXCEPT !.grid = AddToCell(acc.grid, <<i, j>>, weight)]

\* dist_weight of line 269, or 1/l_i of line 274
VoteWeight(vote, p, dw) ==
    IF vote.nan THEN Rat(0, 1)
    ELSE IF p.use_distance_weighting THEN DistWeight(dw, p.zero_val, Rat(vote.ln, vote.dd))
    ELSE Rat(vote.dd, vote.ln)

Voted(acc, vote, p, dw, shape) == Accumulate(acc, vote, VoteWeight(vote, p, dw), p, shape)

\* Mutant: the colour test of line 249 is left out.
VoteStepAnyColour(acc, segment, p, dw, shape) ==
    IF acc.raised THEN acc
    ELSE IF segment.points[1][1] < 0 \/ segment.points[2][1] < 0 THEN acc
    ELSE Voted(acc, generateVote(segment, p), p, dw, shape)
\* lines 249-254: the segments that reach generateVote
VoteStep(acc, segment, p, dw, shape) ==
    IF acc.raised THEN acc
    ELSE IF segment.color # YELLOW THEN acc
    ELSE IF segment.points[1][1] < 0 \/ segment.points[2][1] < 0 THEN acc
    ELSE Voted(acc, generateVote(segment, p), p, dw, shape)

RECURSIVE VoteLoop(_, _, _, _, _)
VoteLoop(acc, segments, p, dw, shape) ==
    IF segments = <<>> THEN acc
    ELSE VoteLoop(VoteStep(acc, Head(segments), p, dw, shape), Tail(segments), p, dw, shape)

measurementLikelihood(segments, p, dw, shape) ==
    VoteLoop([raised |-> FALSE, grid |-> [num |-> Zeros(shape), den |-> 1]],
             segments, p, dw, shape)

\* ------------------------------------------------ gaussian_filter (line 356)
\* scipy's gaussian_filter1d: radius int(4 sigma + 0.5), weights
\* exp(-k^2 / (2 sigma^2)) divided by their sum, zero padding (mode constant).
\* sigma is held in hundredths of a cell, a weight in hundredths.
KernelRadius(sigma) == (4 * sigma + 50) \div 100
KernelWeight(k, sigma) == ExpNegFix((500000 * k * k) \div (sigma * sigma)) \div 100
KernelSum(sigma) ==
    LET r == KernelRadius(sigma)
    IN  SumOver([k \in (-r)..r |-> KernelWeight(k, sigma)], (-r)..r)

\* one pass along the axis (1 for d, 2 for phi)
Filter1d(g, sigma, axis, shape) ==
    LET r == KernelRadius(sigma)
        at(c, k) == IF axis = 1 THEN <<c[1] + k, c[2]>> ELSE <<c[1], c[2] + k>>
        tap(c, k) == IF at(c, k) \in DOMAIN g.num THEN KernelWeight(k, sigma) * g.num[at(c, k)] ELSE 0
    IN  IF sigma = 0 THEN g
        ELSE Reduce([num |-> Array([c \in DOMAIN g.num |->
                                SumOver([k \in (-r)..r |-> tap(c, k)], (-r)..r)]),
                     den |-> g.den * KernelSum(sigma)])

gaussian_filter(g, cov_mask, shape) == Filter1d(Filter1d(g, cov_mask[1], 1, shape), cov_mask[2], 2, shape)

\* ----------------------------------------------- propagateBelief (338-366)
\* Where the mass of cell c goes: a cell, OutOfGrid (dropped) or BadIndex (the
\* index is outside the array and the assignment raises).
OutOfGrid == <<-1, -1>>
BadIndex == <<-2, -2>>
\* Mutant: the bounds test of lines 349-350 is left out.
DestinationUnfiltered(c, p, dg, pg, v, w, delta_t, shape) ==
    LET d_t == dg[c] * Fix + v * delta_t * SinFix(pg[c])
        phi_t == pg[c] + w * delta_t
        i_new == FloorDiv(d_t - p.d_min * Fix, p.delta_d * Fix)
        j_new == FloorDiv(phi_t - p.phi_min, p.delta_phi)
    IN  IF p.delta_d = 0 \/ p.delta_phi = 0 THEN BadIndex
        ELSE IF PyIndex(i_new, shape[1]) = -1 \/ PyIndex(j_new, shape[2]) = -1 THEN BadIndex
        ELSE <<PyIndex(i_new, shape[1]), PyIndex(j_new, shape[2])>>
Destination(c, p, dg, pg, v, w, delta_t, shape) ==
    LET d_t == dg[c] * Fix + v * delta_t * SinFix(pg[c])
        phi_t == pg[c] + w * delta_t
        i_new == FloorDiv(d_t - p.d_min * Fix, p.delta_d * Fix)
        j_new == FloorDiv(phi_t - p.phi_min, p.delta_phi)
    IN  IF \/ d_t > p.d_max * Fix
           \/ d_t < p.d_min * Fix
           \/ phi_t < p.phi_min
           \/ phi_t > p.phi_max
        THEN OutOfGrid
        ELSE IF p.delta_d = 0 \/ p.delta_phi = 0 THEN BadIndex
        ELSE IF PyIndex(i_new, shape[1]) = -1 \/ PyIndex(j_new, shape[2]) = -1 THEN BadIndex
        ELSE <<PyIndex(i_new, shape[1]), PyIndex(j_new, shape[2])>>

\* p_beliefRV: the mass of the positive cells summed at their destinations
Destinations(belief, p, dg, pg, v, w, delta_t, shape) ==
    Array([c \in DOMAIN belief.num |->
             IF belief.num[c] > 0 THEN Destination(c, p, dg, pg, v, w, delta_t, shape)
             ELSE OutOfGrid])

Remap(belief, dest) ==
    [num |-> Array([x \in DOMAIN belief.num |->
                SumOver([c \in DOMAIN belief.num |-> IF dest[c] = x THEN belief.num[c] ELSE 0],
                        DOMAIN belief.num)]),
     den |-> belief.den]

Scale100(g) == Reduce([num |-> Array([c \in DOMAIN g.num |-> 100 * g.num[c]]), den |-> g.den])

\* lines 358-360, given the destinations and the smoothed grid
Propagated(belief, dest, s_beliefRV) ==
    IF \E c \in DOMAIN dest : dest[c] = BadIndex
    THEN [raised |-> TRUE, replaced |-> FALSE, beliefRV |-> belief]
    ELSE IF SumNum(s_beliefRV) = 0
    THEN [raised |-> FALSE, replaced |-> FALSE, beliefRV |-> belief]
    ELSE [raised |-> FALSE, replaced |-> TRUE, beliefRV |-> Normalize(s_beliefRV)]

Smoothed(belief, dest, p, shape) ==
    Propagated(belief, dest, gaussian_filter(Scale100(Remap(belief, dest)), p.cov_mask, shape))

propagateBelief(belief, p, dg, pg, v, w, delta_t, shape) ==
    Smoothed(belief, Destinations(belief, p, dg, pg, v, w, delta_t, shape), p, shape)

\* -------------------------------------------------- updateBelief (368-370)
\* (belief + 1) * (likelihood + 1) - 1, elementwise
\* Mutant: the plain product belief * likelihood, without the two shifts.
FuseCellsProduct(belief, likelihood) ==
    [num |-> Array([c \in DOMAIN belief.num |-> belief.num[c] * likelihood.num[c]]),
     den |-> belief.den * likelihood.den]
FuseCells(belief, likelihood) ==
    [num |-> Array([c \in DOMAIN belief.num |->
                belief.num[c] * likelihood.num[c] + belief.num[c] * likelihood.den
                    + likelihood.num[c] * belief.den]),
     den |-> belief.den * likelihood.den]
\* Mutant: the division by np.sum of line 370 is left out.
updateBeliefUnnormalized(belief, likelihood) == FuseCells(belief, likelihood)
updateBelief(belief, likelihood) == Normalize(FuseCells(belief, likelihood))

\* ----------------------------------------------------- pose (lines 289-302)
\* np.unravel_index(argmax): the first maximum in row-major order
RowMajorBefore(a, b) == a[1] < b[1] \/ (a[1] = b[1] /\ a[2] < b[2])
\* Mutant: the last maximum in row-major order.
ArgMaxLast(g) ==
    CHOOSE c \in DOMAIN g.num :
        \A x \in DOMAIN g.num :
            g.num[x] < g.num[c] \/ (g.num[x] = g.num[c] /\ (x = c \/ RowMajorBefore(x, c)))
ArgMax(g) ==
    CHOOSE c \in DOMAIN g.num :
        \A x \in DOMAIN g.num :
            g.num[x] < g.num[c] \/ (g.num[x] = g.num[c] /\ (x = c \/ RowMajorBefore(c, x)))

\* ------------------------------------------------------------------ inputs
\* Parameter-server contents a reload may find.
NoPropagation ==
    [BaseParams EXCEPT !.use_propagation = FALSE, !.use_distance_weighting = TRUE,
                       !.l_peak = 100, !.l_max = 200, !.control_points_int = TRUE,
                       !.min_segs = 0]
Smoothing ==
    [BaseParams EXCEPT !.cov_mask = <<60, 60>>, !.use_max_segment_dist = TRUE,
                       !.max_segment_dist = 30, !.min_segs = 2]
BadResolution == [BaseParams EXCEPT !.delta_d = 0]
ParamChoices == {BaseParams, NoPropagation, Smoothing, BadResolution}

\* valid axes: min < max and resolution > 0
ValidParams(p) ==
    /\ p.d_min < p.d_max /\ p.phi_min < p.phi_max
    /\ p.delta_d > 0 /\ p.delta_phi > 0

Seg(x1, y1, x2, y2, color) == [points |-> <<<<x1, y1>>, <<x2, y2>>>>, color |-> color]
\* The segment lists of the frames.
SegMid == Seg(10, 20, 30, 20, YELLOW)
SegDiag == Seg(10, 10, 40, 50, YELLOW)
SegFar == Seg(10, 40, 30, 40, YELLOW)
SegEdge == Seg(10, 30, 10, 10, YELLOW)
SegPoint == Seg(10, 20, 10, 20, YELLOW)
SegNegX == Seg(-10, 20, 10, 20, YELLOW)
SegNegY == Seg(10, -5, 30, -5, YELLOW)
SegWhite == Seg(10, 20, 30, 20, WHITE)
SegmentLists ==
    { <<>>,
      <<SegMid, SegFar>>,
      <<SegWhite, SegNegX>>,
      <<SegDiag, SegPoint>>,
      <<SegEdge>>,
      <<SegNegY, SegWhite>> }

\* (v, omega) of the velocity messages, in cm and centiradians per tick
Twists == {<<20, -105>>, <<0, 400>>}

\* ------------------------------------------------------------------- state
VARIABLES
    active,          \* self.active
    params,          \* the attributes updateParams sets
    d, phi,          \* the mgrid arrays of __init__
    beliefRV,        \* self.beliefRV
    dw,              \* self.dwa, self.dwb, self.dwc
    lanePose,        \* self.lanePose
    t_last_update,   \* self.t_last_update
    v_current, w_current,
    sub_velocity,    \* whether __init__ subscribed updateVelocity
    published,       \* how many messages each publisher has sent
    frame,           \* what the processSegments call that just returned did;
                     \* NoFrame once another callback has run
    frames,          \* the segment lists received; one arrives per clock tick
    reloads,         \* the updateParams calls of the timer
    pc,              \* where the frame callback's thread is in processSegments
    local,           \* what that call holds between its steps
    twist_msg        \* the message updateVelocity holds between lines 321 and 322

vars == <<active, params, d, phi, beliefRV, dw, lanePose, t_last_update, v_current,
          w_current, sub_velocity, published, frame, frames, reloads, pc, local,
          twist_msg>>

\* self.d.shape
Shape == <<Cardinality({c[1] : c \in DOMAIN d}), Cardinality({c[2] : c \in DOMAIN d})>>

NoGrid == [num |-> <<>>, den |-> 0]
\* The attributes a call can change, as they are when it starts.
Before ==
    [active |-> active, beliefRV |-> beliefRV, lanePose |-> lanePose,
     published |-> published, t_last_update |-> t_last_update,
     v_current |-> v_current, w_current |-> w_current]
NoFrame == [outcome |-> "none", segments |-> <<>>, propagation |-> "none",
            prior |-> NoGrid, likelihood |-> NoGrid, configs |-> {}, before |-> <<>>]
\* no velocity message is between the two assignments
NoTwist == <<>>
NoLocal == [segments |-> <<>>, propagation |-> "none", prior |-> NoGrid,
            likelihood |-> NoGrid, configs |-> {}, before |-> <<>>]

\* ---------------------------------------------------------------- __init__
Init ==
    /\ active = TRUE
    /\ params \in {BaseParams, NoPropagation}
    /\ d = GridD(params)
    /\ phi = GridPhi(params)
    /\ beliefRV = initializeBelief(d, phi, params)
    /\ lanePose = [d |-> params.mean_0[1], phi |-> params.mean_0[2], in_lane |-> FALSE,
                   stamp |-> 0, status |-> "NORMAL"]
    /\ dw = DwCoefficients(params)
    /\ t_last_update = 0
    /\ v_current = 0
    /\ w_current = 0
    /\ sub_velocity = params.use_propagation
    /\ published = [lane_pose |-> 0, belief_img |-> 0, in_lane |-> 0]
    /\ frame = NoFrame
    /\ frames = 0
    /\ reloads = 0
    /\ pc = "idle"
    /\ local = NoLocal
    /\ twist_msg = NoTwist

\* ------------------------------------------------- updateParams (72-105)
\* Every attribute is overwritten with what the parameter server holds.
updateParams(given) ==
    /\ reloads < MaxReloads
    /\ params' = given
    /\ reloads' = reloads + 1
    /\ frame' = NoFrame
    /\ UNCHANGED <<active, d, phi, beliefRV, dw, lanePose, t_last_update, v_current,
                   w_current, sub_velocity, published, frames, pc, local, twist_msg>>

\* ---------------------------------------------------- cbSwitch (107-108)
cbSwitch(data) ==
    /\ active' = data
    /\ frame' = NoFrame
    /\ UNCHANGED <<params, d, phi, beliefRV, dw, lanePose, t_last_update, v_current,
                   w_current, sub_velocity, published, frames, reloads, pc, local, twist_msg>>

\* ----------------------------------------------- updateVelocity (320-322)
updateVelocity(v, omega) ==
    /\ sub_velocity
    /\ v_current' = v
    /\ w_current' = omega
    /\ frame' = NoFrame
    /\ UNCHANGED <<active, params, d, phi, beliefRV, dw, lanePose, t_last_update,
                   sub_velocity, published, frames, reloads, pc, local, twist_msg>>

\* --------------------------------------------- processSegments (110-318)
\* np.linalg.norm(grid) == 0
NormIsZero(g) == \A c \in DOMAIN g.num : g.num[c] = 0
\* beliefRV.max() > min_max, min_max in hundredths
MaxAbove(g, min_max) == g.num[ArgMax(g)] * 100 > min_max * g.den

\* Mutant: the segment count is compared with >= instead of >.
PoseAtLeastMinSegs(belief, measurement_likelihood, maxids, nsegs, stamp, p) ==
    [d |-> p.d_min + maxids[1] * p.delta_d,
     phi |-> p.phi_min + maxids[2] * p.delta_phi,
     in_lane |-> /\ MaxAbove(belief, p.min_max)
                 /\ nsegs >= p.min_segs
                 /\ ~NormIsZero(measurement_likelihood),
     stamp |-> stamp, status |-> "NORMAL"]
\* lines 289-302: the pose read from the belief
Pose(belief, measurement_likelihood, maxids, nsegs, stamp, p) ==
    [d |-> p.d_min + maxids[1] * p.delta_d,
     phi |-> p.phi_min + maxids[2] * p.delta_phi,
     in_lane |-> /\ MaxAbove(belief, p.min_max)
                 /\ nsegs > p.min_segs
                 /\ ~NormIsZero(measurement_likelihood),
     stamp |-> stamp, status |-> "NORMAL"]

\* What one call does: the new belief and pose, whether it published, and
\* what happened on the way.
Done(outcome, propagation, belief, pose, prior, likelihood) ==
    [outcome |-> outcome, propagation |-> propagation, beliefRV |-> belief, pose |-> pose,
     prior |-> prior, likelihood |-> likelihood]

PropagationOf(prop, p) ==
    IF ~p.use_propagation THEN "none"
    ELSE IF prop.raised THEN "raised"
    ELSE IF prop.replaced THEN "replaced"
    ELSE "retained"

\* lines 289-318
Extract(prop, measurement_likelihood, posterior, nsegs, stamp, p) ==
    Done("published", PropagationOf(prop, p), posterior,
         Pose(posterior, measurement_likelihood, ArgMax(posterior), nsegs, stamp, p),
         prop.beliefRV, measurement_likelihood)

\* Mutant: the belief is fused with the likelihood whatever use_propagation says.
FuseAlways(prop, measurement_likelihood, nsegs, stamp, p) ==
    Extract(prop, measurement_likelihood, updateBelief(prop.beliefRV, measurement_likelihood),
            nsegs, stamp, p)
\* lines 281-284
Fuse(prop, measurement_likelihood, nsegs, stamp, p) ==
    Extract(prop, measurement_likelihood,
            IF p.use_propagation THEN updateBelief(prop.beliefRV, measurement_likelihood)
            ELSE measurement_likelihood,
            nsegs, stamp, p)

\* Mutant: the return of line 278 is left out.
MeasuredWithoutReturn(prop, acc, nsegs, stamp, p, pose) ==
    IF acc.raised
    THEN Done("raised", PropagationOf(prop, p), prop.beliefRV, pose, prop.beliefRV, NoGrid)
    ELSE Fuse(prop, Normalize(acc.grid), nsegs, stamp, p)
\* lines 277-279
Measured(prop, acc, nsegs, stamp, p, pose) ==
    IF acc.raised
    THEN Done("raised", PropagationOf(prop, p), prop.beliefRV, pose, prop.beliefRV, NoGrid)
    ELSE IF NormIsZero(acc.grid)
    THEN Done("no_observation", PropagationOf(prop, p), prop.beliefRV, pose, prop.beliefRV,
              acc.grid)
    ELSE Fuse(prop, Normalize(acc.grid), nsegs, stamp, p)

\* lines 119-274
Measure(prop, segments, stamp, p, coeffs, shape, pose) ==
    IF prop.raised
    THEN Done("raised", "raised", prop.beliefRV, pose, prop.beliefRV, NoGrid)
    ELSE Measured(prop, measurementLikelihood(segments, p, coeffs, shape), Len(segments), stamp,
                  p, pose)

\* Mutant: the test of self.active at line 111 is left out.
FrameUnswitched(isactive, belief, segments, stamp, p, coeffs, dg, pg, v, w, delta_t, shape, pose) ==
    Measure(IF p.use_propagation
            THEN propagateBelief(belief, p, dg, pg, v, w, delta_t, shape)
            ELSE [raised |-> FALSE, replaced |-> FALSE, beliefRV |-> belief],
            segments, stamp, p, coeffs, shape, pose)
\* lines 111-117; delta_t is the time since t_last_update read at line 339
Frame(isactive, belief, segments, stamp, p, coeffs, dg, pg, v, w, delta_t, shape, pose) ==
    IF ~isactive THEN Done("inactive", "none", belief, pose, belief, NoGrid)
    ELSE Measure(IF p.use_propagation
                 THEN propagateBelief(belief, p, dg, pg, v, w, delta_t, shape)
                 ELSE [raised |-> FALSE, replaced |-> FALSE, beliefRV |-> belief],
                 segments, stamp, p, coeffs, shape, pose)

\* Mutant: the timestamp of line 117 is set only when the belief was replaced.
CommitStampOnReplace(done, segments, t) ==
    /\ frame' = [outcome |-> done.outcome, segments |-> segments,
                 propagation |-> done.propagation,
                 prior |-> done.prior, likelihood |-> done.likelihood,
                 configs |-> {params}, before |-> Before]
    /\ t_last_update' = IF done.propagation = "replaced" THEN t
                        ELSE t_last_update
    /\ beliefRV' = done.beliefRV
    /\ lanePose' = done.pose
    /\ published' = IF done.outcome = "published"
                    THEN [lane_pose |-> published.lane_pose + 1,
                          belief_img |-> published.belief_img + 1,
                          in_lane |-> published.in_lane + 1]
                    ELSE published
\* The state after the call that did `done`; t is what rospy.get_time() returns
\* during the call (lines 339 and 117).
Commit(done, segments, t) ==
    /\ frame' = [outcome |-> done.outcome, segments |-> segments,
                 propagation |-> done.propagation,
                 prior |-> done.prior, likelihood |-> done.likelihood,
                 configs |-> {params}, before |-> Before]
    /\ t_last_update' = IF done.propagation \in {"replaced", "retained"} THEN t
                        ELSE t_last_update
    /\ beliefRV' = done.beliefRV
    /\ lanePose' = done.pose
    /\ published' = IF done.outcome = "published"
                    THEN [lane_pose |-> published.lane_pose + 1,
                          belief_img |-> published.belief_img + 1,
                          in_lane |-> published.in_lane + 1]
                    ELSE published

\* The message is the (frames + 1)-th; it arrives at that clock tick and
\* carries it as its header stamp.
processSegments(segments) ==
    /\ pc = "idle"
    /\ frames < MaxFrames
    /\ frames' = frames + 1
    /\ Commit(Frame(active, beliefRV, segments, frames + 1, params, dw, d, phi, v_current,
                    w_current, frames + 1 - t_last_update, Shape, lanePose),
              segments, frames + 1)
    /\ UNCHANGED <<active, params, d, phi, dw, v_current, w_current, sub_velocity, reloads,
                   pc, local, twist_msg>>

Next ==
    \/ \E given \in ParamChoices : updateParams(given)
    \/ \E data \in BOOLEAN : cbSwitch(data)
    \/ \E twist \in Twists : updateVelocity(twist[1], twist[2])
    \/ \E segments \in SegmentLists : processSegments(segments)

Spec == Init /\ [][Next]_vars

\* ------------------------------------------------ the callbacks as threads
\* rospy runs the timer callback and each subscriber callback in threads of
\* their own, and the node takes no lock: updateParams, cbSwitch and
\* updateVelocity can run between any two statements of processSegments.
\* updateVelocity is cut between its two assignments, lines 321 and 322.
\* The frame callback is cut at lines 119 and 281; every step reads the
\* attributes as they are when it runs.

\* lines 110-117
Begun(prop, segments, t) ==
    IF ~active \/ prop.raised
    THEN /\ frame' = [outcome |-> IF active THEN "raised" ELSE "inactive",
                      segments |-> segments,
                      propagation |-> IF active THEN "raised" ELSE "none",
                      prior |-> beliefRV, likelihood |-> NoGrid,
                      configs |-> {params}, before |-> Before]
         /\ UNCHANGED <<beliefRV, t_last_update, pc, local>>
    ELSE /\ beliefRV' = prop.beliefRV
         /\ t_last_update' = IF params.use_propagation THEN t ELSE t_last_update
         /\ pc' = "likelihood"
         /\ local' = [segments |-> segments, propagation |-> PropagationOf(prop, params),
                      prior |-> prop.beliefRV, likelihood |-> NoGrid,
                      configs |-> {params}, before |-> Before]
         /\ UNCHANGED frame

frameBegin(segments) ==
    /\ pc = "idle"
    /\ frames < MaxFrames
    /\ frames' = frames + 1
    /\ Begun(IF active /\ params.use_propagation
             THEN propagateBelief(beliefRV, params, d, phi, v_current, w_current,
                                  frames + 1 - t_last_update, Shape)
             ELSE [raised |-> FALSE, replaced |-> FALSE, beliefRV |-> beliefRV],
             segments, frames + 1)
    /\ UNCHANGED <<active, params, d, phi, dw, lanePose, v_current, w_current, sub_velocity,
                   published, reloads, twist_msg>>

\* lines 119-279
Likelihood(acc) ==
    IF acc.raised \/ NormIsZero(acc.grid)
    THEN /\ frame' = [outcome |-> IF acc.raised THEN "raised" ELSE "no_observation",
                      segments |-> local.segments, propagation |-> local.propagation,
                      prior |-> local.prior,
                      likelihood |-> IF acc.raised THEN NoGrid ELSE acc.grid,
                      configs |-> local.configs \cup {params}, before |-> local.before]
         /\ pc' = "idle"
         /\ local' = NoLocal
    ELSE /\ pc' = "update"
         /\ local' = [local EXCEPT !.likelihood = Normalize(acc.grid),
                                   !.configs = @ \cup {params}]
         /\ UNCHANGED frame

frameLikelihood ==
    /\ pc = "likelihood"
    /\ Likelihood(measurementLikelihood(local.segments, params, dw, Shape))
    /\ UNCHANGED <<active, params, d, phi, beliefRV, dw, lanePose, t_last_update, v_current,
                   w_current, sub_velocity, published, frames, reloads, twist_msg>>

\* lines 281-318
Updated(done) ==
    /\ beliefRV' = done.beliefRV
    /\ lanePose' = done.pose
    /\ published' = [lane_pose |-> published.lane_pose + 1,
                     belief_img |-> published.belief_img + 1,
                     in_lane |-> published.in_lane + 1]
    /\ frame' = [outcome |-> "published", segments |-> local.segments,
                 propagation |-> local.propagation, prior |-> local.prior,
                 likelihood |-> local.likelihood,
                 configs |-> local.configs \cup {params}, before |-> local.before]

frameUpdate ==
    /\ pc = "update"
    /\ Updated(Fuse([raised |-> FALSE, replaced |-> FALSE, beliefRV |-> beliefRV],
                    local.likelihood, Len(local.segments), frames, params))
    /\ pc' = "idle"
    /\ local' = NoLocal
    /\ UNCHANGED <<active, params, d, phi, dw, t_last_update, v_current, w_current,
                   sub_velocity, frames, reloads, twist_msg>>

\* line 321: the callback of a velocity message stores its v; rospy runs the
\* callbacks of one subscription one after the other
velocityLinear(v, omega) ==
    /\ sub_velocity
    /\ twist_msg = NoTwist
    /\ v_current' = v
    /\ twist_msg' = <<v, omega>>
    /\ frame' = NoFrame
    /\ UNCHANGED <<active, params, d, phi, beliefRV, dw, lanePose, t_last_update, w_current,
                   sub_velocity, published, frames, reloads, pc, local>>

\* line 322: the same callback stores its omega
velocityAngular ==
    /\ twist_msg # NoTwist
    /\ w_current' = twist_msg[2]
    /\ twist_msg' = NoTwist
    /\ frame' = NoFrame
    /\ UNCHANGED <<active, params, d, phi, beliefRV, dw, lanePose, t_last_update, v_current,
                   sub_velocity, published, frames, reloads, pc, local>>

NextThreads ==
    \/ \E given \in ParamChoices : updateParams(given)
    \/ \E data \in BOOLEAN : cbSwitch(data)
    \/ \E twist \in Twists : velocityLinear(twist[1], twist[2])
    \/ velocityAngular
    \/ \E segments \in SegmentLists : frameBegin(segments)
    \/ frameLikelihood
    \/ frameUpdate

SpecThreads == Init /\ [][NextThreads]_vars

\* ------------------------------------------------------------ properties
\* What the properties read of the last call: `frame` holds the segment list,
\* the belief after the propagation step (prior), the normalized likelihood,
\* the configurations read, and the attributes as they were when it began.

\* C1: every propagation step, and every fusion or replacement step, that
\* changes the stored belief leaves a belief whose cells sum to 1; a step
\* whose total mass is zero changes nothing and keeps the previous belief.
C1_BeliefSumsToOne ==
    frame.outcome # "none" =>
        /\ frame.propagation = "replaced" => SumsToOne(frame.prior)
        /\ frame.propagation = "retained" => frame.prior = frame.before.beliefRV
        /\ beliefRV # frame.prior => SumsToOne(beliefRV)
        /\ frame.outcome = "no_observation" => beliefRV = frame.prior
\* A propagation whose mass all left the grid kept the belief, and the fusion
\* that followed changed it.
C1_Witness ==
    /\ frame.propagation = "retained"
    /\ frame.outcome = "published"
    /\ beliefRV # frame.before.beliefRV
    /\ SumsToOne(beliefRV)

\* C2: the belief of a freshly constructed filter, stored by
\* initializeBelief, sums to 1 over all grid cells.
C2_InitialBeliefSumsToOne == frames = 0 => SumsToOne(beliefRV)

\* C3: a frame in which no segment yields an accepted vote (the likelihood
\* grid has no mass) leaves the belief as it was after the propagation step
\* of that frame, leaves the lane pose unchanged and publishes nothing.
C3_NoObservationNoEffect ==
    frame.outcome # "none" /\ NormIsZero(frame.likelihood) =>
        /\ beliefRV = frame.prior
        /\ lanePose = frame.before.lanePose
        /\ published = frame.before.published
\* Segments arrived, none was accepted, and the propagation of the frame had
\* replaced the belief.
C3_Witness ==
    /\ frame.outcome = "no_observation"
    /\ Len(frame.segments) > 0
    /\ frame.propagation = "replaced"
    /\ beliefRV # frame.before.beliefRV
    /\ published = frame.before.published

\* C4: while the switch is off a processSegments call is a no-op: belief,
\* last-update timestamp and lane pose are unchanged, no propagation runs and
\* nothing is published.
C4_InactiveNoOp ==
    frame.outcome # "none" /\ ~frame.before.active =>
        /\ beliefRV = frame.before.beliefRV
        /\ t_last_update = frame.before.t_last_update
        /\ lanePose = frame.before.lanePose
        /\ published = frame.before.published
        /\ frame.propagation = "none"
\* A frame was processed and published, the switch went off, and the next
\* frame found it off.
C4_Witness ==
    /\ frames = 2
    /\ frame.outcome = "inactive"
    /\ ~frame.before.active
    /\ frame.before.published.lane_pose = 1
    /\ published.lane_pose = 1

\* (B + 1) * (L + 1) - 1 at cell c, over the common denominator B.den * L.den
FusedCell(B, L, c) == (B.num[c] + B.den) * (L.num[c] + L.den) - B.den * L.den

\* C5: with propagation enabled and a likelihood L of non-zero mass, the
\* belief after fusion is normalize((B + 1) * (L + 1) - 1): it sums to 1,
\* every cell is non-negative, its cells are ordered as those of
\* (B + 1) * (L + 1) - 1, and a cell that is zero in exactly one of B and L
\* is non-zero in it.
C5_Fusion ==
    frame.outcome = "published" /\ frame.propagation # "none" =>
        /\ SumsToOne(beliefRV)
        /\ NonNegative(beliefRV)
        /\ \A c \in DOMAIN beliefRV.num :
            /\ (frame.prior.num[c] = 0) # (frame.likelihood.num[c] = 0) => beliefRV.num[c] > 0
            /\ \A x \in DOMAIN beliefRV.num :
                FusedCell(frame.prior, frame.likelihood, c)
                        < FusedCell(frame.prior, frame.likelihood, x)
                    => beliefRV.num[c] <= beliefRV.num[x]
\* A fusion in which some cell had no prior mass and a vote, and another had
\* prior mass and no vote.
C5_Witness ==
    /\ frame.outcome = "published"
    /\ frame.propagation = "replaced"
    /\ \E c \in DOMAIN beliefRV.num :
        frame.prior.num[c] = 0 /\ frame.likelihood.num[c] > 0 /\ beliefRV.num[c] > 0
    /\ \E c \in DOMAIN beliefRV.num :
        frame.prior.num[c] > 0 /\ frame.likelihood.num[c] = 0 /\ beliefRV.num[c] > 0

\* C6 as stated: with propagation enabled a frame advances the last-update
\* timestamp exactly when propagation replaced the stored belief.
C6_TimestampOnlyOnReplacement ==
    frame.outcome # "none" =>
        ((t_last_update # frame.before.t_last_update) <=> frame.propagation = "replaced")
\* C6 amended: a frame of an active filter with propagation enabled sets the
\* timestamp to the current time whenever the propagateBelief call returns,
\* whether it replaced the belief or kept it because no mass was left; the
\* timestamp stays when propagation is disabled, the filter inactive, or
\* the call raised.
C6_TimestampOnEveryPropagation ==
    frame.outcome # "none" =>
        /\ frame.propagation \in {"replaced", "retained"} => t_last_update = frames
        /\ frame.propagation \in {"none", "raised"} =>
            t_last_update = frame.before.t_last_update
        /\ frame.propagation = "retained" => frame.prior = frame.before.beliefRV
        /\ frame.propagation = "replaced" => SumsToOne(frame.prior)
\* The second frame's propagation kept the belief, and the timestamp moved
\* from the first frame's time to the second's.
C6_Witness ==
    /\ frames = 2
    /\ frame.propagation = "retained"
    /\ frame.before.t_last_update = 1
    /\ t_last_update = 2

\* C7: in a frame that publishes a lane pose, in_lane is true exactly when
\* the largest belief cell exceeds min_max, the number of segments of the
\* frame exceeds min_segs, and the likelihood of the frame had mass.
C7_InLane ==
    frame.outcome = "published" =>
        \A p \in frame.configs :
            lanePose.in_lane <=>
                /\ \E c \in DOMAIN beliefRV.num : beliefRV.num[c] * 100 > p.min_max * beliefRV.den
                /\ Len(frame.segments) > p.min_segs
                /\ \E c \in DOMAIN frame.likelihood.num : frame.likelihood.num[c] # 0
\* The belief is sharp enough and the frame had exactly min_segs segments:
\* the count decides, and in_lane is false.
C7_Witness ==
    /\ frame.outcome = "published"
    /\ ~lanePose.in_lane
    /\ \E p \in frame.configs :
        /\ Len(frame.segments) = p.min_segs
        /\ \E c \in DOMAIN beliefRV.num : beliefRV.num[c] * 100 > p.min_max * beliefRV.den

\* C8: a reload with invalid axis bounds or a non-positive resolution is
\* rejected, so the configuration in force is always a valid one.
C8_InvalidReloadRejected == ValidParams(params)

\* a negative coordinate, or coincident endpoints
InvalidSegment(segment) ==
    \/ \E k \in 1..2 : segment.points[k][1] < 0 \/ segment.points[k][2] < 0
    \/ segment.points[1] = segment.points[2]

\* C9: a segment with a negative coordinate or of zero length is skipped: it
\* adds nothing to the likelihood, and no exception escapes processSegments
\* because of it.
C9_InvalidSegmentsSkipped ==
    (/\ frame.outcome # "none" /\ frame.before.active
     /\ \A p \in frame.configs : ValidParams(p)) =>
        /\ (\E k \in DOMAIN frame.segments : InvalidSegment(frame.segments[k]))
            => frame.outcome # "raised"
        /\ (\A k \in DOMAIN frame.segments :
                InvalidSegment(frame.segments[k]) \/ frame.segments[k].color # YELLOW)
            => NormIsZero(frame.likelihood)

\* C10: a reload never takes effect in the middle of a processSegments call:
\* under every interleaving, all the parameter values one frame reads come
\* from one configuration.
C10_OneConfigurationPerFrame ==
    /\ Cardinality(frame.configs) <= 1
    /\ Cardinality(local.configs) <= 1

\* C11: in every reachable state the coefficients dwa, dwb, dwc that the
\* distance weighting of the next frame uses are the ones derived from the
\* control points of the configuration in force.
C11_CoefficientsFollowConfiguration == dw = DwCoefficients(params)

\* C12: with propagation disabled, a frame whose likelihood has mass leaves
\* as belief the normalized likelihood of that frame, which is computed from
\* the frame's segments alone and so does not depend on the belief held
\* before; no propagation step runs and the timestamp is not changed.
C12_NoPropagationMemoryless ==
    frame.outcome = "published" =>
        \A p \in frame.configs :
            ~p.use_propagation =>
                /\ beliefRV = frame.likelihood
                /\ beliefRV = Normalize(measurementLikelihood(frame.segments, p, dw, Shape).grid)
                /\ frame.propagation = "none"
                /\ frame.prior = frame.before.beliefRV
                /\ t_last_update = frame.before.t_last_update
\* The second frame of a filter without propagation: the belief before it
\* was another one, and the frame replaced it.
C12_Witness ==
    /\ frames = 2
    /\ frame.outcome = "published"
    /\ \A p \in frame.configs : ~p.use_propagation
    /\ SumsToOne(frame.before.beliefRV)
    /\ beliefRV # frame.before.beliefRV
    /\ beliefRV = frame.likelihood

\* c holds the largest mass of g, and no cell before it in row-major order
\* holds as much
FirstMaximum(g, c) ==
    \A x \in DOMAIN g.num :
        /\ g.num[x] <= g.num[c]
        /\ (x[1] < c[1] \/ (x[1] = c[1] /\ x[2] < c[2])) => g.num[x] < g.num[c]

\* C13: a published lane pose is (d_min + i * delta_d, phi_min + j * delta_phi)
\* for the cell (i, j) of largest belief mass, the first one in row-major
\* order when several tie: the lower edge of the cell, not its centre.
C13_PoseIsLowerEdgeOfFirstMaximum ==
    frame.outcome = "published" =>
        \A p \in frame.configs :
            \E c \in DOMAIN beliefRV.num :
                /\ FirstMaximum(beliefRV, c)
                /\ lanePose.d = p.d_min + c[1] * p.delta_d
                /\ lanePose.phi = p.phi_min + c[2] * p.delta_phi
\* Two cells tie for the largest mass, and the pose is that of the first.
C13_Witness ==
    /\ frame.outcome = "published"
    /\ \E c, x \in DOMAIN beliefRV.num :
        /\ c # x
        /\ FirstMaximum(beliefRV, c)
        /\ beliefRV.num[x] = beliefRV.num[c]
        /\ \A p \in frame.configs :
            /\ lanePose.d = p.d_min + c[1] * p.delta_d
            /\ lanePose.phi = p.phi_min + c[2] * p.delta_phi

\* w(l) = dwa*l^3 + dwb*l^2 + dwc*l + zero_val with the coefficients in use
WeightAt(l) == DistWeight(dw, params.zero_val, Rat(l, 1))

\* C14: for control points with l_max > l_peak > 0 the weighting polynomial
\* built from the closed-form coefficients takes the value zero_val at 0,
\* peak_val at l_peak and zero_val at l_max. (Stated of a filter as
\* constructed, whose coefficients are those of its configuration.)
C14_WeightAtControlPoints ==
    (frames = 0 /\ reloads = 0 /\ 0 < params.l_peak /\ params.l_peak < params.l_max) =>
        /\ WeightAt(0) = Rat(params.zero_val, 1)
        /\ WeightAt(params.l_peak) = Rat(params.peak_val, 1)
        /\ WeightAt(params.l_max) = Rat(params.zero_val, 1)

\* a segment whose vote lines 249-263 accept under p: yellow, no negative x,
\* a length, and d_i, phi_i, l_i inside the limits
AcceptedVote(segment, p) ==
    /\ segment.color = YELLOW
    /\ segment.points[1][1] >= 0 /\ segment.points[2][1] >= 0
    /\ segment.points[1] # segment.points[2]
    /\ LET vote == generateVote(segment, p)
       IN  /\ p.d_min * vote.dd <= vote.dn /\ vote.dn <= p.d_max * vote.dd
           /\ p.phi_min <= vote.phi_i /\ vote.phi_i <= p.phi_max
           /\ ~(p.use_max_segment_dist /\ vote.ln > p.max_segment_dist * vote.dd)
\* (floor((d_i - d_min)/delta_d), floor((phi_i - phi_min)/delta_phi))
BinOf(vote, p) ==
    <<FloorDiv(vote.dn - p.d_min * vote.dd, p.delta_d * vote.dd),
      FloorDiv(vote.phi_i - p.phi_min, p.delta_phi)>>
\* the coordinates recovered from cell c are at most (d_i, phi_i) and less
\* than one bin width below
WithinOneBin(vote, c, p) ==
    /\ (p.d_min + c[1] * p.delta_d) * vote.dd <= vote.dn
    /\ vote.dn < (p.d_min + (c[1] + 1) * p.delta_d) * vote.dd
    /\ p.phi_min + c[2] * p.delta_phi <= vote.phi_i
    /\ vote.phi_i < p.phi_min + (c[2] + 1) * p.delta_phi
\* the cells the accepted votes of the last frame go to
VotedCells(p) ==
    {BinOf(generateVote(frame.segments[k], p), p) :
        k \in {n \in DOMAIN frame.segments : AcceptedVote(frame.segments[n], p)}}

\* C15: every accepted vote (d_i, phi_i) is accumulated into exactly one
\* cell (i, j) of the grid, and (d_min + i*delta_d, phi_min + j*delta_phi)
\* differs from (d_i, phi_i) by less than one bin width on each axis; the
\* cells of a computed likelihood that hold mass are those cells.
C15_BinningRoundTrip ==
    (frame.outcome # "none" /\ frame.before.active) =>
        \A p \in {q \in frame.configs : ValidParams(q)} :
            /\ \A k \in DOMAIN frame.segments :
                AcceptedVote(frame.segments[k], p) =>
                    /\ BinOf(generateVote(frame.segments[k], p), p) \in Cells(Shape)
                    /\ WithinOneBin(generateVote(frame.segments[k], p),
                                    BinOf(generateVote(frame.segments[k], p), p), p)
            /\ frame.outcome \in {"published", "no_observation"} =>
                {c \in DOMAIN frame.likelihood.num : frame.likelihood.num[c] # 0} = VotedCells(p)

\* the predicted state of cell c maps back to c
MapsToItself(c, p, delta_t) == Destination(c, p, d, phi, 0, 0, delta_t, Shape) = c
\* the same distribution: equal cell by cell as rationals
SameGrid(g, h) ==
    /\ DOMAIN g.num = DOMAIN h.num
    /\ \A c \in DOMAIN g.num : g.num[c] * h.den = h.num[c] * g.den

\* C16: propagation with v = 0 and omega = 0 maps the mass of every cell
\* back to the same cell, and with a smoothing that is the identity the
\* stored belief is exactly unchanged by the propagation step.
C16_IdentityPropagation ==
    (/\ frame.propagation \in {"replaced", "retained"}
     /\ frame.before.v_current = 0 /\ frame.before.w_current = 0) =>
        \A p \in frame.configs :
            (KernelRadius(p.cov_mask[1]) = 0 /\ KernelRadius(p.cov_mask[2]) = 0) =>
                /\ \A c \in DOMAIN d : MapsToItself(c, p, frames - frame.before.t_last_update)
                /\ SameGrid(frame.prior, frame.before.beliefRV)

\* the yellow segments of a list, in order
YellowOnly(segments) == SelectSeq(segments, LAMBDA segment : segment.color = YELLOW)

\* C17: only yellow segments contribute votes: the likelihood of a frame is
\* the one of the frame with every segment of another colour removed; those
\* segments count only in the number of segments the in_lane decision uses.
C17_OnlyYellowVotes ==
    \A p \in frame.configs :
        /\ frame.outcome = "published" =>
            /\ frame.likelihood
                = Normalize(measurementLikelihood(YellowOnly(frame.segments), p, dw, Shape).grid)
            /\ lanePose.in_lane => Len(frame.segments) > p.min_segs
        /\ frame.outcome = "no_observation" =>
            NormIsZero(measurementLikelihood(YellowOnly(frame.segments), p, dw, Shape).grid)
        /\ (frame.outcome = "raised" /\ frame.propagation # "raised") =>
            measurementLikelihood(YellowOnly(frame.segments), p, dw, Shape).raised
\* A frame with a white segment published, and the white segment made the
\* count exceed min_segs: in_lane is true with a single yellow segment.
C17_Witness ==
    /\ frame.outcome = "published"
    /\ lanePose.in_lane
    /\ YellowOnly(frame.segments) # frame.segments
    /\ \E p \in frame.configs :
        Len(YellowOnly(frame.segments)) <= p.min_segs /\ p.min_segs < Len(frame.segments)

\* the predicted state of cell c, (d + v*dt*sin(phi), phi + omega*dt), lies
\* within the bounds of p
PredictedInside(c, p, v, w, delta_t) ==
    /\ p.d_min * Fix <= d[c] * Fix + v * delta_t * SinFix(phi[c])
    /\ d[c] * Fix + v * delta_t * SinFix(phi[c]) <= p.d_max * Fix
    /\ p.phi_min <= phi[c] + w * delta_t
    /\ phi[c] + w * delta_t <= p.phi_max
\* the source cells of the last frame's propagation that are kept
KeptCells(p) ==
    {c \in DOMAIN d :
        PredictedInside(c, p, frame.before.v_current, frame.before.w_current,
                        frames - frame.before.t_last_update)}
\* p_beliefRV of the last frame's propagation
Remapped(p) ==
    Remap(frame.before.beliefRV,
          Destinations(frame.before.beliefRV, p, d, phi, frame.before.v_current,
                       frame.before.w_current, frames - frame.before.t_last_update, Shape))

\* what C18 says of the remapped grid p_beliefRV
KeepsExactlyTheKeptMass(p_beliefRV, p) ==
    /\ SumNum(p_beliefRV)
        = SumOver([c \in DOMAIN d |->
                      IF PredictedInside(c, p, frame.before.v_current, frame.before.w_current,
                                         frames - frame.before.t_last_update)
                      THEN frame.before.beliefRV.num[c] ELSE 0],
                  DOMAIN d)
    /\ \A x \in DOMAIN d : p_beliefRV.num[x] >= 0
    /\ frame.propagation = "replaced" =>
        frame.prior = Normalize(gaussian_filter(Scale100(p_beliefRV), p.cov_mask, Shape))
    /\ frame.propagation = "retained" => SumNum(p_beliefRV) = 0

WholeTwists == Twists \cup {<<0, 0>>}

\* C19: under every interleaving of updateVelocity with processSegments the
\* pair (v_current, w_current) read by one propagation step comes from one
\* single velocity message, never v of one message with omega of another.
C19_VelocityPairFromOneMessage ==
    /\ frame.propagation # "none" =>
        <<frame.before.v_current, frame.before.w_current>> \in WholeTwists
    /\ local.propagation # "none" =>
        <<local.before.v_current, local.before.w_current>> \in WholeTwists

\* (floor((d_t - d_min)/delta_d), floor((phi_t - phi_min)/delta_phi)) of the
\* predicted state of cell c, as lines 351-352 compute them
PredictedIndex(c, p, v, w, delta_t) ==
    <<FloorDiv(d[c] * Fix + v * delta_t * SinFix(phi[c]) - p.d_min * Fix, p.delta_d * Fix),
      FloorDiv(phi[c] + w * delta_t - p.phi_min, p.delta_phi)>>

\* C20: the cell indices are always inside the belief array built at
\* construction: for every vote that passes the bounds filter, and for every
\* predicted state that passes the same filter in propagateBelief, the
\* computed pair of indices is a cell of the grid, values exactly equal to
\* d_max or phi_max included.
C20_IndicesInsideGrid ==
    (frame.outcome # "none" /\ frame.before.active) =>
        \A p \in {q \in frame.configs : ValidParams(q)} :
            /\ \A k \in DOMAIN frame.segments :
                AcceptedVote(frame.segments[k], p) =>
                    /\ BinOf(generateVote(frame.segments[k], p), p)[1] \in 0..(Shape[1] - 1)
                    /\ BinOf(generateVote(frame.segments[k], p), p)[2] \in 0..(Shape[2] - 1)
            /\ p.use_propagation =>
                \A c \in DOMAIN d :
                    (/\ frame.before.beliefRV.num[c] > 0
                     /\ PredictedInside(c, p, frame.before.v_current, frame.before.w_current,
                                        frames - frame.before.t_last_update)) =>
                        PredictedIndex(c, p, frame.before.v_current, frame.before.w_current,
                                       frames - frame.before.t_last_update) \in Cells(Shape)

====
